---- MODULE Spec2Model ----
(***************************************************************************)
(* Model of the transport core of the Relay API client: HTTPClient         *)
(* (src/src/client/errors.ts).  One request() call is followed through its *)
(* await points: pre-request hook, race of fetch against the timer,        *)
(* post-response hook, body read and classification, error hook.           *)
(***************************************************************************)
EXTENDS Integers, Sequences, FiniteSets, TLC

VARIABLES
    given,        \* the HTTPClientConfig handed to the constructor
    config,       \* the HTTPClient's readonly fields, set by the constructor
    pc,           \* await point the request() call is suspended at
    opts,         \* the RequestOptions the call was made with
    reqInit,      \* url and requestOptions assembled by request()
    fetchCalls,   \* the arguments of every fetch() issued, in order
    timer,        \* the setTimeout of the call: state, time set, time due
    now,          \* time elapsed since request() was called
    response,     \* the Response the race delivered, if any
    data,         \* body parsed by handleResponse, if any
    relayError,   \* the value handleError returned in the catch block, if any
    outcome,      \* how the promise returned by request() settled
    settledAt,    \* time at which the call's result or error was produced
    log,          \* observable steps of the call, in order
    thrown,       \* the value the catch block of request() caught, if any
    relay,        \* the RelayClient under construction or constructed, if any
    peer,         \* a second request() call running on the same HTTPClient, if any
    pure,         \* a call of a helper function: its name, arguments and result
    wrapper       \* the convenience method the call was made through, if any

\* the HTTPClient, the clock and the locals of the request() call followed
callvars == <<given, config, pc, opts, reqInit, fetchCalls, timer, now, response, data,
              relayError, outcome, settledAt, log, thrown>>

aux == <<relay, peer, pure, wrapper>>

vars == <<callvars, aux>>

(***************************************************************************)
(* Bounds                                                                  *)
(***************************************************************************)
\* unit clock steps taken one by one; later instants are reached by waiting
\* for the timer
MaxTicks == 2

(***************************************************************************)
(* Values                                                                  *)
(***************************************************************************)
None == "undefined"
Nothing == {}
Some(x) == {x}
The(s) == CHOOSE x \in s : TRUE
EmptyMap == <<>>
NoDetails == <<>>

\* {...a, ...b}
Spread(a, b) ==
    [k \in (DOMAIN a) \cup (DOMAIN b) |-> IF k \in DOMAIN b THEN b[k] ELSE a[k]]

DefaultTimeout == 30000

(***************************************************************************)
(* Error classes                                                           *)
(***************************************************************************)
RelayClasses ==
    {"RelayError", "AuthenticationError", "AuthorizationError", "NotFoundError",
     "ValidationError", "RateLimitError", "NetworkError", "ServerError",
     "TimeoutError"}

\* an Error object (or other thrown value): class, fields of RelayError
ErrorValue(cls, message, status, code, details, retryAfter) ==
    [cls |-> cls, message |-> message, status |-> status, code |-> code,
     details |-> details, retryAfter |-> retryAfter]

\* a parameter with a default value: the default stands in for undefined
Default(arg, dflt) == IF arg = None THEN dflt ELSE arg

RelayError(message, status, code, details) ==
    ErrorValue("RelayError", message, status, code, details, Nothing)

AuthenticationError(message, details) ==
    ErrorValue("AuthenticationError", Default(message, "Authentication failed"),
               Some(401), "AUTHENTICATION_ERROR", details, Nothing)

AuthorizationError(message, details) ==
    ErrorValue("AuthorizationError", Default(message, "Insufficient permissions"),
               Some(403), "AUTHORIZATION_ERROR", details, Nothing)

NotFoundError(message, details) ==
    ErrorValue("NotFoundError", Default(message, "Resource not found"),
               Some(404), "NOT_FOUND", details, Nothing)

ValidationError(message, details) ==
    ErrorValue("ValidationError", Default(message, "Validation failed"),
               Some(400), "VALIDATION_ERROR", details, Nothing)

RateLimitError(message, retryAfter, details) ==
    ErrorValue("RateLimitError", Default(message, "Rate limit exceeded"),
               Some(429), "RATE_LIMIT_ERROR", details, retryAfter)

NetworkError(message, details) ==
    ErrorValue("NetworkError", Default(message, "Network request failed"),
               Nothing, "NETWORK_ERROR", details, Nothing)

ServerError(message, status, details) ==
    ErrorValue("ServerError", Default(message, "Internal server error"),
               Some(status), "SERVER_ERROR", details, Nothing)

TimeoutError(message, details) ==
    ErrorValue("TimeoutError", Default(message, "Request timeout"),
               Some(408), "TIMEOUT_ERROR", details, Nothing)

\* values that are not RelayErrors: what fetch, a hook or JSON.stringify throws
RawError(cls, message) == ErrorValue(cls, message, Nothing, None, NoDetails, Nothing)

\* the kind of the error taxonomy an error class stands for
Kind(e) ==
    CASE e.cls = "AuthenticationError" -> "AUTHENTICATION"
      [] e.cls = "AuthorizationError" -> "AUTHORIZATION"
      [] e.cls = "NotFoundError" -> "NOT_FOUND"
      [] e.cls = "ValidationError" -> "VALIDATION"
      [] e.cls = "RateLimitError" -> "RATE_LIMIT"
      [] e.cls = "NetworkError" -> "NETWORK"
      [] e.cls = "ServerError" -> "SERVER"
      [] e.cls = "TimeoutError" -> "TIMEOUT"
      [] e.cls = "RelayError" /\ e.code = "UNKNOWN_ERROR" -> "UNKNOWN"
      [] e.cls = "RelayError" -> "GENERIC"
      [] OTHER -> "none"

\* error instanceof RelayError
InstanceOfRelayError(e) == e.cls \in RelayClasses

(***************************************************************************)
(* Strings that are taken apart are sequences of tokens: "/", "?", "&",    *)
(* "=", "," and " " are tokens of their own, every other token is a run of *)
(* other characters.                                                       *)
(***************************************************************************)
RECURSIVE Flatten(_)
Flatten(ss) == IF ss = <<>> THEN <<>> ELSE Head(ss) \o Flatten(Tail(ss))

\* str.includes(tok)
Includes(str, tok) == \E i \in 1..Len(str) : str[i] = tok

\* URLSearchParams serialisation of one name or value (application/
\* x-www-form-urlencoded): a space becomes "+", reserved characters are
\* percent-encoded, the rest is kept
EncodeToken(tok) ==
    CASE tok = " " -> "+"
      [] tok = "&" -> "%26"
      [] tok = "=" -> "%3D"
      [] tok = "?" -> "%3F"
      [] tok = "/" -> "%2F"
      [] tok = "," -> "%2C"
      [] OTHER -> tok

EncodeString(str) == [i \in 1..Len(str) |-> EncodeToken(str[i])]

\* a JavaScript value is [t |-> type, v |-> content]: t is "undefined" or
\* "null" (v is None), "string" (v the string), "number" (v an integer),
\* "boolean" (v a Boolean) or "array" (v the sequence of its items)
Undefined == [t |-> "undefined", v |-> None]
Null == [t |-> "null", v |-> None]
Str(str) == [t |-> "string", v |-> str]
Num(n) == [t |-> "number", v |-> n]
Bool(b) == [t |-> "boolean", v |-> b]
Array(items) == [t |-> "array", v |-> items]

\* String(value); an array is its items joined by ",", null and undefined
\* items giving the empty string
RECURSIVE String(_)
String(value) ==
    CASE value.t = "undefined" -> <<"undefined">>
      [] value.t = "null" -> <<"null">>
      [] value.t = "string" -> value.v
      [] value.t = "number" -> <<ToString(value.v)>>
      [] value.t = "boolean" -> <<(IF value.v THEN "true" ELSE "false")>>
      [] value.t = "array" ->
            Flatten([i \in 1..Len(value.v) |->
                        (IF i = 1 THEN <<>> ELSE <<",">>)
                        \o (IF value.v[i].t \in {"undefined", "null"} THEN <<>>
                            ELSE String(value.v[i]))])

\* a variant that appends an array as one value
EntryPairs_ArrayAsOne(entry) ==
    LET key == entry[1]
        value == entry[2]
    IN  IF value.t \in {"undefined", "null"} THEN <<>>
        ELSE << <<key, String(value)>> >>

\* the [key, String(item)] pairs buildQueryString appends for one entry
\* <<key, value>> of Object.entries(params)
EntryPairs(entry) ==
    LET key == entry[1]
        value == entry[2]
    IN  IF value.t \in {"undefined", "null"} THEN <<>>
        ELSE IF value.t = "array"
             THEN [i \in 1..Len(value.v) |-> <<key, String(value.v[i])>>]
             ELSE << <<key, String(value)>> >>

\* URLSearchParams.toString()
SearchParamsToString(pairs) ==
    Flatten([i \in 1..Len(pairs) |->
                (IF i = 1 THEN <<>> ELSE <<"&">>)
                \o EncodeString(pairs[i][1]) \o <<"=">> \o EncodeString(pairs[i][2])])

buildQueryString(params) ==
    SearchParamsToString(Flatten([i \in 1..Len(params) |-> EntryPairs(params[i])]))

\* a variant that always separates with "?"
appendQueryParams_AlwaysQuestionMark(url, params) ==
    LET queryString == buildQueryString(params)
    IN  IF queryString = <<>> THEN url ELSE url \o <<"?">> \o queryString

appendQueryParams(url, params) ==
    LET queryString == buildQueryString(params)
    IN  IF queryString = <<>> THEN url
        ELSE url \o <<(IF Includes(url, "?") THEN "&" ELSE "?")>> \o queryString

(***************************************************************************)
(* HTTPClient                                                              *)
(***************************************************************************)
\* a variant that removes every trailing slash
RECURSIVE StripTrailingSlash_All(_)
StripTrailingSlash_All(url) ==
    IF url # <<>> /\ url[Len(url)] = "/"
    THEN StripTrailingSlash_All(SubSeq(url, 1, Len(url) - 1))
    ELSE url

\* config.baseURL.replace(/\/$/, "")
StripTrailingSlash(url) ==
    IF url # <<>> /\ url[Len(url)] = "/" THEN SubSeq(url, 1, Len(url) - 1) ELSE url

FixedHeaders ==
    [k \in {"Content-Type", "User-Agent"} |->
        IF k = "Content-Type" THEN "application/json"
        ELSE "relay-api-client-typescript/1.0.0"]

\* a variant whose fixed headers override the configured ones
Constructor_FixedHeadersWin(cfg) ==
    [baseURL |-> StripTrailingSlash(cfg.baseURL),
     apiKey |-> cfg.apiKey,
     timeout |-> IF cfg.timeout = Nothing THEN DefaultTimeout ELSE The(cfg.timeout),
     defaultHeaders |-> Spread(cfg.headers, FixedHeaders),
     onRequest |-> cfg.onRequest,
     onResponse |-> cfg.onResponse,
     onError |-> cfg.onError]

\* new HTTPClient(cfg): cfg.timeout is Nothing or Some(ms), cfg.headers a map
\* (EmptyMap when undefined), the hooks are configured (TRUE) or not
Constructor(cfg) ==
    [baseURL |-> StripTrailingSlash(cfg.baseURL),
     apiKey |-> cfg.apiKey,
     timeout |-> IF cfg.timeout = Nothing THEN DefaultTimeout ELSE The(cfg.timeout),
     defaultHeaders |-> Spread(FixedHeaders, cfg.headers),
     onRequest |-> cfg.onRequest,
     onResponse |-> cfg.onResponse,
     onError |-> cfg.onError]

\* a variant that takes the default for every falsy timeout (timeout || default)
TimeoutOf_Falsy(o) ==
    IF o.timeout \in {Nothing, Some(0)} THEN config.timeout ELSE The(o.timeout)

\* destructuring defaults of request()
MethodOf(o) == IF o.method = None THEN "GET" ELSE o.method
TimeoutOf(o) == IF o.timeout = Nothing THEN config.timeout ELSE The(o.timeout)
CredentialsOf(o) == IF o.credentials = None THEN "same-origin" ELSE o.credentials

BuildURL(o) ==
    LET url == config.baseURL \o o.path
    IN  IF o.query # Nothing THEN appendQueryParams(url, The(o.query)) ELSE url

\* a variant that spreads the caller's headers last
BuildHeaders_CallerLast(o) ==
    Spread(Spread(config.defaultHeaders,
                  [k \in {"Authorization"} |-> "Bearer " \o config.apiKey]),
           o.headers)

BuildHeaders(o) ==
    Spread(Spread(config.defaultHeaders, o.headers),
           [k \in {"Authorization"} |-> "Bearer " \o config.apiKey])

\* a request body is [t |-> type, v |-> value as a string]; JS truthiness
Truthy(body) ==
    CASE body.t \in {"undefined", "null"} -> FALSE
      [] body.t = "string" -> body.v # ""
      [] body.t = "number" -> body.v # "0"
      [] body.t = "boolean" -> body.v # "false"
      [] OTHER -> TRUE

\* JSON.stringify(body) throws a TypeError on a circular structure
StringifyThrows(body) == body.t = "circular"

JSONStringify(body) ==
    CASE body.t = "string" -> "\"" \o body.v \o "\""
      [] body.t = "object" -> "{" \o body.v \o "}"
      [] OTHER -> body.v

HasBody(o) == Truthy(o.body) /\ MethodOf(o) # "GET"

SerializeBody(o) ==
    IF HasBody(o)
    THEN Some(IF o.body.t = "string" THEN o.body.v ELSE JSONStringify(o.body))
    ELSE Nothing

BuildRequest(o) ==
    [url |-> BuildURL(o),
     method |-> MethodOf(o),
     headers |-> BuildHeaders(o),
     credentials |-> CredentialsOf(o),
     body |-> SerializeBody(o)]

(***************************************************************************)
(* Responses.  A Response is [status, contentType, body]; the body is read *)
(* later and is [kind |-> "json" | "text" | "unreadable", text, value]: value is *)
(* the object a JSON text denotes, [message, error, code, details,         *)
(* retry_after] with absent fields None, NoDetails or Nothing.             *)
(***************************************************************************)
Object(message, error, code, details, retry_after) ==
    [message |-> message, error |-> error, code |-> code, details |-> details,
     retry_after |-> retry_after]

EmptyObject == Object(None, None, None, NoDetails, Nothing)

\* a variant that takes 200 alone for a success
Ok_Only200(status) == status = 200

\* response.ok
Ok(status) == status >= 200 /\ status <= 299

\* contentType?.includes("application/json")
IsJSON(contentType) ==
    contentType \in {"application/json", "application/json; charset=utf-8"}

\* a variant that falls back to the text of a body that is not valid JSON
ParseBody_TextOnFailure(contentType, raw) ==
    IF raw.kind = "unreadable" THEN EmptyObject
    ELSE IF IsJSON(contentType) /\ raw.kind = "json" THEN raw.value
    ELSE IF raw.text # "" THEN Object(raw.text, None, None, NoDetails, Nothing)
    ELSE EmptyObject

\* the try block of handleResponse: response.json() or response.text(), an
\* unreadable body or malformed JSON throws and leaves {}
ParseBody(contentType, raw) ==
    IF raw.kind = "unreadable" THEN EmptyObject
    ELSE IF IsJSON(contentType)
         THEN IF raw.kind = "json" THEN raw.value ELSE EmptyObject
         ELSE IF raw.text # ""
              THEN Object(raw.text, None, None, NoDetails, Nothing)
              ELSE EmptyObject

\* a || b for strings that may be undefined
OrElse(a, b) == IF a \in {None, ""} THEN b ELSE a

\* a variant whose switch lacks case 422
createErrorFromResponse_No422(status, d) ==
    LET message == OrElse(d.message, OrElse(d.error, "An error occurred"))
    IN  CASE status = 401 -> AuthenticationError(message, d.details)
          [] status = 403 -> AuthorizationError(message, d.details)
          [] status = 404 -> NotFoundError(message, d.details)
          [] status = 400 -> ValidationError(message, d.details)
          [] status = 429 -> RateLimitError(message, d.retry_after, d.details)
          [] status \in {500, 502, 503, 504} -> ServerError(message, status, d.details)
          [] OTHER -> RelayError(message, Some(status), d.code, d.details)

\* a variant that does not read retry_after
createErrorFromResponse_NoRetryAfter(status, d) ==
    LET message == OrElse(d.message, OrElse(d.error, "An error occurred"))
    IN  CASE status = 401 -> AuthenticationError(message, d.details)
          [] status = 403 -> AuthorizationError(message, d.details)
          [] status = 404 -> NotFoundError(message, d.details)
          [] status \in {400, 422} -> ValidationError(message, d.details)
          [] status = 429 -> RateLimitError(message, Nothing, d.details)
          [] status \in {500, 502, 503, 504} -> ServerError(message, status, d.details)
          [] OTHER -> RelayError(message, Some(status), d.code, d.details)

\* a variant in which the code of the body replaces the code of every kind
createErrorFromResponse_BodyCodeWins(status, d) ==
    LET message == OrElse(d.message, OrElse(d.error, "An error occurred"))
        WithCode(e) == [e EXCEPT !.code = OrElse(d.code, @)]
    IN  CASE status = 401 -> WithCode(AuthenticationError(message, d.details))
          [] status = 403 -> WithCode(AuthorizationError(message, d.details))
          [] status = 404 -> WithCode(NotFoundError(message, d.details))
          [] status \in {400, 422} -> WithCode(ValidationError(message, d.details))
          [] status = 429 -> WithCode(RateLimitError(message, d.retry_after, d.details))
          [] status \in {500, 502, 503, 504} ->
                WithCode(ServerError(message, status, d.details))
          [] OTHER -> RelayError(message, Some(status), d.code, d.details)

\* a variant whose default case leaves the body's code out
createErrorFromResponse_DefaultNoCode(status, d) ==
    LET message == OrElse(d.message, OrElse(d.error, "An error occurred"))
    IN  CASE status = 401 -> AuthenticationError(message, d.details)
          [] status = 403 -> AuthorizationError(message, d.details)
          [] status = 404 -> NotFoundError(message, d.details)
          [] status \in {400, 422} -> ValidationError(message, d.details)
          [] status = 429 -> RateLimitError(message, d.retry_after, d.details)
          [] status \in {500, 502, 503, 504} -> ServerError(message, status, d.details)
          [] OTHER -> RelayError(message, Some(status), None, d.details)

createErrorFromResponse(status, d) ==
    LET message == OrElse(d.message, OrElse(d.error, "An error occurred"))
        code == d.code
        details == d.details
    IN  CASE status = 401 -> AuthenticationError(message, details)
          [] status = 403 -> AuthorizationError(message, details)
          [] status = 404 -> NotFoundError(message, details)
          [] status \in {400, 422} -> ValidationError(message, details)
          [] status = 429 -> RateLimitError(message, d.retry_after, details)
          [] status \in {500, 502, 503, 504} -> ServerError(message, status, details)
          [] OTHER -> RelayError(message, Some(status), code, details)

\* handleError reads error.message: that throws for a thrown null or undefined
handleErrorThrows(e) == e.cls = "null"

\* a variant that takes every value that is not a RelayError for a network failure
handleError_AlwaysNetwork(e) ==
    IF InstanceOfRelayError(e) THEN e
    ELSE NetworkError("Network request failed. Please check your connection.",
                      <<"originalError", e.message>>)

handleError(e) ==
    IF InstanceOfRelayError(e) THEN e
    ELSE IF e.cls = "TypeError" \/ e.message = "Failed to fetch"
         THEN NetworkError("Network request failed. Please check your connection.",
                           <<"originalError", e.message>>)
         ELSE RelayError(OrElse(e.message, "An unknown error occurred"), Nothing,
                         "UNKNOWN_ERROR", <<"originalError", e>>)

(***************************************************************************)
(* Inputs                                                                  *)
(***************************************************************************)
BaseURLs == {<<"https:", "/", "/", "api.relay.com", "/">>}

Configs ==
    [baseURL : BaseURLs, apiKey : {"relay_live_k1"}, timeout : {Nothing, Some(2)},
     headers : {EmptyMap}, onRequest : BOOLEAN, onResponse : BOOLEAN,
     onError : BOOLEAN]

Bodies ==
    {[t |-> "undefined", v |-> None], [t |-> "object", v |-> "\"name\":\"w\""],
     [t |-> "circular", v |-> None]}

\* calls without a body are GETs, calls with one are POSTs
Options ==
    {o \in [path : {<<"/", "workflows">>}, method : {None, "POST"},
            headers : {EmptyMap}, body : Bodies, query : {Nothing},
            timeout : {Nothing, Some(0), Some(1)}, credentials : {None}] :
        (o.method = None) <=> (o.body.t = "undefined")}

Statuses == {200, 204, 400, 401, 403, 404, 418, 422, 429, 500, 502, 503, 504}

\* the body of a Response that has not been read yet
Unread == [kind |-> "unread", text |-> "", value |-> EmptyObject]

Responses ==
    [status : Statuses, contentType : {"application/json", "text/plain"},
     body : {Unread}]

RawBodies ==
    {[kind |-> "unreadable", text |-> "", value |-> EmptyObject],
     [kind |-> "text", text |-> "", value |-> EmptyObject],
     [kind |-> "text", text |-> "Bad gateway", value |-> EmptyObject],
     [kind |-> "json", text |-> "{}", value |-> EmptyObject],
     [kind |-> "json", text |-> "{\"error\":\"denied\"}",
      value |-> Object(None, "denied", None, NoDetails, Nothing)],
     [kind |-> "json", text |-> "{\"message\":\"\",\"error\":\"fallback\"}",
      value |-> Object("", "fallback", None, NoDetails, Nothing)],
     [kind |-> "json", text |-> "{\"message\":\"no\",\"code\":\"E1\",...}",
      value |-> Object("no", None, "E1", <<"field", "name">>, Some(7))]}

\* what a rejected fetch() rejects with
FetchFailures ==
    {RawError("TypeError", "Failed to fetch"),
     RawError("Error", "Failed to fetch"),
     RawError("DOMException", "The operation was aborted.")}

\* what a failing hook throws or rejects with
HookFailures ==
    {RawError("Error", "hook failed"), RawError("TypeError", "x is not a function"),
     RawError("null", None), NotFoundError("from hook", NoDetails)}

(***************************************************************************)
(* The promise returned by request()                                       *)
(***************************************************************************)
Pending == [type |-> "pending", value |-> Nothing, error |-> Nothing]
Resolved(v) == [type |-> "value", value |-> Some(v), error |-> Nothing]
Rejected(e) == [type |-> "error", value |-> Nothing, error |-> Some(e)]

\* no request() call has been made yet
NoCall ==
    /\ opts = Nothing
    /\ reqInit = Nothing
    /\ fetchCalls = <<>>
    /\ timer = [state |-> "unset", armedAt |-> 0, due |-> 0]
    /\ now = 0
    /\ response = Nothing
    /\ data = Nothing
    /\ relayError = Nothing
    /\ outcome = [type |-> "pending", value |-> Nothing, error |-> Nothing]
    /\ settledAt = Nothing
    /\ log = <<>>
    /\ thrown = Nothing

\* the state once new HTTPClient(cfg) has returned, for a cfg of cfgs
Constructed(cfgs) ==
    /\ given \in cfgs
    /\ config = Constructor(given)
    /\ pc = "idle"
    /\ NoCall
    /\ relay = Nothing
    /\ peer = Nothing
    /\ pure = Nothing
    /\ wrapper = Nothing

Init == Constructed(Configs)

\* an exception leaves the async function: the promise rejects with it
Throw(e, l) ==
    /\ outcome' = Rejected(e)
    /\ pc' = "done"
    /\ log' = l \o <<"reject">>

\* the catch block of request(), entered with the thrown value e
Catch(e, l) ==
    /\ settledAt' = Some(now)
    /\ thrown' = Some(e)
    /\ IF handleErrorThrows(e)
       THEN /\ Throw(RawError("TypeError", "Cannot read properties of null"), l)
            /\ UNCHANGED relayError
       ELSE /\ relayError' = Some(handleError(e))
            /\ IF config.onError
               THEN /\ pc' = "onError"
                    /\ log' = l \o <<"onError:start">>
                    /\ UNCHANGED outcome
               ELSE Throw(handleError(e), l)

\* a variant that awaits fetch alone, without a timer
IssueFetch_NoTimer(req, o, l) ==
    /\ timer' = timer
    /\ fetchCalls' = Append(fetchCalls, req)
    /\ pc' = "race"
    /\ log' = l \o <<"fetch:start">>

\* setTimeout(..., timeout) and fetch(url, requestOptions), then the await of
\* their race
IssueFetch(req, o, l) ==
    /\ timer' = [state |-> "armed", armedAt |-> now, due |-> now + TimeoutOf(o)]
    /\ fetchCalls' = Append(fetchCalls, req)
    /\ pc' = "race"
    /\ log' = l \o <<"fetch:start">>

\* request(path, options) up to its first await
Request(o) ==
    /\ pc = "idle"
    /\ opts' = Some(o)
    /\ IF HasBody(o) /\ o.body.t # "string" /\ StringifyThrows(o.body)
       THEN /\ Throw(RawError("TypeError", "Converting circular structure to JSON"),
                     log)
            /\ settledAt' = Some(now)
            /\ UNCHANGED <<reqInit, fetchCalls, timer>>
       ELSE /\ reqInit' = Some(BuildRequest(o))
            /\ IF config.onRequest
               THEN /\ pc' = "onRequest"
                    /\ log' = log \o <<"onRequest:start">>
                    /\ UNCHANGED <<fetchCalls, timer, outcome, settledAt>>
               ELSE /\ IssueFetch(BuildRequest(o), o, log)
                    /\ UNCHANGED <<outcome, settledAt>>
    /\ UNCHANGED <<aux, thrown, given, config, now, response, data, relayError>>

\* await this.onRequest(url, requestOptions) completes
OnRequestReturns ==
    /\ pc = "onRequest"
    /\ IssueFetch(The(reqInit), The(opts), log \o <<"onRequest:end">>)
    /\ UNCHANGED <<aux, thrown, given, config, opts, reqInit, now, response, data,
                   relayError, outcome, settledAt>>

\* this.onRequest throws or rejects: outside the try block
OnRequestThrows(e) ==
    /\ pc = "onRequest"
    /\ Throw(e, log \o <<"onRequest:threw">>)
    /\ settledAt' = Some(now)
    /\ UNCHANGED <<aux, thrown, given, config, opts, reqInit, fetchCalls, timer, now,
                   response, data, relayError>>

\* a variant that calls this.onResponse without awaiting it
FetchResolves_HookNotAwaited(r) ==
    /\ pc = "race"
    /\ response' = Some(r)
    /\ pc' = "handleResponse"
    /\ log' = log \o (IF config.onResponse THEN <<"fetch:end", "onResponse:start">>
                      ELSE <<"fetch:end">>)
    /\ UNCHANGED <<aux, thrown, given, config, opts, reqInit, fetchCalls, timer, now,
                   data, relayError, outcome, settledAt>>

\* a variant that calls this.onResponse for a successful response only
FetchResolves_HookOnSuccessOnly(r) ==
    /\ pc = "race"
    /\ response' = Some(r)
    /\ IF config.onResponse /\ Ok(r.status)
       THEN /\ pc' = "onResponse"
            /\ log' = log \o <<"fetch:end", "onResponse:start">>
       ELSE /\ pc' = "handleResponse"
            /\ log' = log \o <<"fetch:end">>
    /\ UNCHANGED <<aux, thrown, given, config, opts, reqInit, fetchCalls, timer, now,
                   data, relayError, outcome, settledAt>>

\* fetch wins the race with a Response
FetchResolves(r) ==
    /\ pc = "race"
    /\ response' = Some(r)
    /\ IF config.onResponse
       THEN /\ pc' = "onResponse"
            /\ log' = log \o <<"fetch:end", "onResponse:start">>
       ELSE /\ pc' = "handleResponse"
            /\ log' = log \o <<"fetch:end">>
    /\ UNCHANGED <<aux, thrown, given, config, opts, reqInit, fetchCalls, timer, now,
                   data, relayError, outcome, settledAt>>

\* a variant that issues the network call again when it failed
FetchRejects_Retry(e) ==
    /\ pc = "race"
    /\ IssueFetch(The(reqInit), The(opts), log \o <<"fetch:failed">>)
    /\ UNCHANGED <<aux, thrown, given, config, opts, reqInit, now, response, data,
                   relayError, outcome, settledAt>>

\* fetch wins the race with a rejection
FetchRejects(e) ==
    /\ pc = "race"
    /\ Catch(e, log \o <<"fetch:failed">>)
    /\ UNCHANGED <<aux, given, config, opts, reqInit, fetchCalls, timer, now, response,
                   data>>

\* a variant whose timer fails the call whenever it fires, settled or not
TimerFires_FailsTheCall ==
    /\ timer.state = "armed"
    /\ now = timer.due
    /\ timer' = [timer EXCEPT !.state = "fired"]
    /\ Catch(TimeoutError("Request timeout after " \o ToString(TimeoutOf(The(opts)))
                          \o "ms", NoDetails),
             log \o <<"timeout">>)
    /\ UNCHANGED <<aux, given, config, opts, reqInit, fetchCalls, now, response, data>>

\* a variant whose timer covers the whole try block: it fails the call while
\* the hook or the body read is in progress as well
TimerFires_CoversTryBlock ==
    /\ timer.state = "armed"
    /\ now = timer.due
    /\ timer' = [timer EXCEPT !.state = "fired"]
    /\ IF pc \in {"race", "onResponse", "handleResponse"}
       THEN Catch(TimeoutError("Request timeout after " \o ToString(TimeoutOf(The(opts)))
                               \o "ms", NoDetails),
                  log \o <<"timeout">>)
       ELSE UNCHANGED <<pc, relayError, outcome, settledAt, log, thrown>>
    /\ UNCHANGED <<aux, given, config, opts, reqInit, fetchCalls, now, response, data>>

\* the setTimeout callback runs: it rejects timeoutPromise, which settles the
\* race only while the race is still pending
TimerFires ==
    /\ timer.state = "armed"
    /\ now = timer.due
    /\ timer' = [timer EXCEPT !.state = "fired"]
    /\ IF pc = "race"
       THEN Catch(TimeoutError("Request timeout after " \o ToString(TimeoutOf(The(opts)))
                               \o "ms", NoDetails),
                  log \o <<"timeout">>)
       ELSE UNCHANGED <<pc, relayError, outcome, settledAt, log, thrown>>
    /\ UNCHANGED <<aux, given, config, opts, reqInit, fetchCalls, now, response, data>>

\* await this.onResponse(response) completes
OnResponseReturns ==
    /\ pc = "onResponse"
    /\ pc' = "handleResponse"
    /\ log' = log \o <<"onResponse:end">>
    /\ UNCHANGED <<aux, thrown, given, config, opts, reqInit, fetchCalls, timer, now,
                   response, data, relayError, outcome, settledAt>>

\* this.onResponse throws or rejects: inside the try block
OnResponseThrows(e) ==
    /\ pc = "onResponse"
    /\ Catch(e, log \o <<"onResponse:threw">>)
    /\ UNCHANGED <<aux, given, config, opts, reqInit, fetchCalls, timer, now, response,
                   data>>

\* handleResponse: the body read completes (or fails), then the status decides
handleResponse(raw) ==
    /\ pc = "handleResponse"
    /\ response' = Some([The(response) EXCEPT !.body = raw])
    /\ LET r == The(response)
           d == ParseBody(r.contentType, raw)
       IN  /\ data' = Some(d)
           /\ IF ~Ok(r.status)
              THEN Catch(createErrorFromResponse(r.status, d),
                         log \o <<"parse", "classify">>)
              ELSE /\ outcome' = Resolved(d)
                   /\ pc' = "done"
                   /\ log' = log \o <<"parse", "resolve">>
                   /\ settledAt' = Some(now)
                   /\ UNCHANGED <<relayError, thrown>>
    /\ UNCHANGED <<aux, given, config, opts, reqInit, fetchCalls, timer, now>>

\* await this.onError(relayError) completes, then throw relayError
OnErrorReturns ==
    /\ pc = "onError"
    /\ Throw(The(relayError), log \o <<"onError:end">>)
    /\ UNCHANGED <<aux, thrown, given, config, opts, reqInit, fetchCalls, timer, now,
                   response, data, relayError, settledAt>>

\* this.onError throws or rejects inside the catch block
OnErrorThrows(e) ==
    /\ pc = "onError"
    /\ Throw(e, log \o <<"onError:threw">>)
    /\ UNCHANGED <<aux, thrown, given, config, opts, reqInit, fetchCalls, timer, now,
                   response, data, relayError, settledAt>>

\* a timer that is due runs before time moves on
TimerDue == timer.state = "armed" /\ timer.due <= now

\* one unit of time passes while the call is suspended or its timer is armed
Tick ==
    /\ pc \notin {"idle", "done"} \/ (pc = "done" /\ timer.state = "armed")
    /\ ~TimerDue
    /\ now < MaxTicks
    /\ now' = now + 1
    /\ UNCHANGED <<aux, thrown, given, config, pc, opts, reqInit, fetchCalls, timer,
                   response, data, relayError, outcome, settledAt, log>>

\* nothing happens until the timer is due
AwaitTimer ==
    /\ timer.state = "armed"
    /\ timer.due > now
    /\ now' = timer.due
    /\ UNCHANGED <<aux, thrown, given, config, pc, opts, reqInit, fetchCalls, timer,
                   response, data, relayError, outcome, settledAt, log>>

Next ==
    \/ \E o \in Options : Request(o)
    \/ OnRequestReturns
    \/ \E e \in HookFailures : OnRequestThrows(e)
    \/ \E r \in Responses : FetchResolves(r)
    \/ \E e \in FetchFailures : FetchRejects(e)
    \/ TimerFires
    \/ OnResponseReturns
    \/ \E e \in HookFailures : OnResponseThrows(e)
    \/ \E raw \in RawBodies : handleResponse(raw)
    \/ OnErrorReturns
    \/ \E e \in HookFailures : OnErrorThrows(e)
    \/ Tick
    \/ AwaitTimer

Spec == Init /\ [][Next]_vars

(***************************************************************************)
(* Vocabulary of the properties                                            *)
(***************************************************************************)
Logged(ev) == \E i \in 1..Len(log) : log[i] = ev
Count(ev) == Cardinality({i \in 1..Len(log) : log[i] = ev})

\* handleResponse has read and judged the Response
Handled == response # Nothing /\ data # Nothing
Status == (The(response)).status

\* no hook of the call has thrown or rejected
NoHookFailed ==
    ~Logged("onRequest:threw") /\ ~Logged("onResponse:threw") /\ ~Logged("onError:threw")

Failed == pc = "done" /\ outcome.type = "error"

\* section 4.1 of the specification: status -> kind
TableStatuses == {401, 403, 404, 400, 422, 429, 500, 502, 503, 504}
TableKind(status) ==
    CASE status = 401 -> "AUTHENTICATION"
      [] status = 403 -> "AUTHORIZATION"
      [] status = 404 -> "NOT_FOUND"
      [] status \in {400, 422} -> "VALIDATION"
      [] status = 429 -> "RATE_LIMIT"
      [] status \in {500, 502, 503, 504} -> "SERVER"

\* the effective timeout N: per-call override, else configured default, else 30000
EffectiveTimeout ==
    IF (The(opts)).timeout # Nothing THEN The((The(opts)).timeout)
    ELSE IF given.timeout # Nothing THEN The(given.timeout)
    ELSE 30000

\* C1: a response whose status is in the table of section 4.1 is classified to
\* exactly the kind the table lists for it, whatever its body holds, and that
\* error is what the call fails with (the error handed to the error hook, and
\* the caller's error whenever the error hook does not itself fail).
C1_StatusKind ==
    (Handled /\ Status \in TableStatuses) =>
        /\ relayError # Nothing
        /\ Kind(The(relayError)) = TableKind(Status)
        /\ outcome.type # "value"
        /\ (pc = "done" /\ ~Logged("onError:threw")) =>
                /\ outcome.type = "error"
                /\ Kind(The(outcome.error)) = TableKind(Status)

C1_Witness ==
    /\ Failed
    /\ Handled /\ Status = 422 /\ (The(response)).body.kind = "json"
    /\ (The(response)).body.value.code = "E1"
    /\ Kind(The(outcome.error)) = "VALIDATION"

\* C2: a 2xx response makes the call return the body parsed from it, as it
\* is: the promise resolves with that value, no error is classified or thrown
\* and the error hook is not invoked.
C2_SuccessReturnsBody ==
    (Handled /\ Status >= 200 /\ Status <= 299) =>
        /\ pc = "done"
        /\ outcome = Resolved(The(data))
        /\ LET r == The(response)
           IN  /\ (r.body.kind = "json" /\ IsJSON(r.contentType)) =>
                        outcome.value = Some(r.body.value)
               /\ (r.body.kind = "text" /\ ~IsJSON(r.contentType) /\ r.body.text # "") =>
                        (The(outcome.value)).message = r.body.text
        /\ relayError = Nothing
        /\ ~Logged("onError:start")
        /\ ~Logged("classify")

C2_Witness ==
    /\ pc = "done" /\ Handled /\ Status = 200
    /\ (The(response)).body.kind = "json"
    /\ outcome.type = "value"
    /\ (The(outcome.value)).message = "no"
    /\ config.onError

\* C3: when the timer of a call fires while its network call has not
\* settled, the call fails with a TimeoutError whose message is "Request
\* timeout after {N}ms", N being the per-call timeout if given, else the
\* configured default, else 30000; the timer is due N after it was set.
C3_TimeoutError ==
    /\ timer.state # "unset" => timer.due = timer.armedAt + EffectiveTimeout
    /\ Logged("timeout") =>
        LET e == TimeoutError("Request timeout after " \o ToString(EffectiveTimeout)
                              \o "ms", NoDetails)
        IN  /\ relayError = Some(e)
            /\ Kind(e) = "TIMEOUT"
            /\ (pc = "done" /\ ~Logged("onError:threw")) => outcome = Rejected(e)

C3_Witness ==
    /\ Failed /\ Logged("timeout")
    /\ opts # Nothing /\ (The(opts)).timeout = Nothing /\ given.timeout = Nothing
    /\ (The(outcome.error)).message = "Request timeout after 30000ms"

IsPrefix(a, b) == Len(a) <= Len(b) /\ SubSeq(b, 1, Len(a)) = a

AllHooks == config.onRequest /\ config.onResponse /\ config.onError

\* the steps of a call with all three hooks that gets a failing status
FailingCallSteps ==
    <<"onRequest:start", "onRequest:end", "fetch:start", "fetch:end",
      "onResponse:start", "onResponse:end", "parse", "classify",
      "onError:start", "onError:end", "reject">>

\* the call is (still) one that gets a response with a failing status and in
\* which no hook fails
FailingStatusCall ==
    /\ pc # "idle" /\ reqInit # Nothing
    /\ NoHookFailed /\ ~Logged("fetch:failed") /\ ~Logged("timeout")
    /\ response # Nothing => ~Ok(Status)

\* C5: with all three hooks configured and a response with a failing status,
\* the steps of the call are request hook, network call, response hook, body
\* parse and classification, error hook, in this order, each hook having
\* completed before the next step starts, and the caller gets the error only
\* after the error hook completed.
C5_HookOrder ==
    (AllHooks /\ FailingStatusCall) =>
        /\ IsPrefix(log, FailingCallSteps)
        /\ (pc = "done" => log = FailingCallSteps)
        /\ (outcome.type # "pending" => Logged("onError:end"))

C5_Witness ==
    /\ AllHooks /\ FailingStatusCall /\ Failed
    /\ Handled /\ Status = 503
    /\ log = FailingCallSteps

\* C6 as stated: a failed call delivers an error of the RelayError family,
\* whichever step failed.
C6_Original == Failed => InstanceOfRelayError(The(outcome.error))

\* C7 as stated: when a call fails and an error hook is configured, the error
\* hook was invoked, with the classified error, before the caller got the error.
C7_Original ==
    (Failed /\ config.onError) => (Logged("onError:start") /\ relayError # Nothing)

\* C8 as stated: whatever the error hook does, the call fails with the very
\* error that was passed to the hook.
C8_Original ==
    (pc = "done" /\ Logged("onError:start")) => outcome = Rejected(The(relayError))

\* C9: a call issues the network call at most once, whatever the outcome,
\* and settles exactly once, with one result or one error.
C9_NoRetry ==
    /\ Len(fetchCalls) <= 1
    /\ Count("fetch:start") = Len(fetchCalls)
    /\ Count("resolve") + Count("reject") = (IF pc = "done" THEN 1 ELSE 0)
    /\ (pc = "done") <=> (outcome.type # "pending")
    /\ outcome.type = "value" => (outcome.value # Nothing /\ outcome.error = Nothing)
    /\ outcome.type = "error" => (outcome.error # Nothing /\ outcome.value = Nothing)

C9_Witness ==
    /\ Failed /\ Handled /\ Status = 429
    /\ Kind(The(outcome.error)) = "RATE_LIMIT"
    /\ Len(fetchCalls) = 1

(***************************************************************************)
(* Classification of responses and failures in detail                      *)
(***************************************************************************)
\* a non-2xx response whose status the table of section 4.1 does not list
UnlistedFailure == Handled /\ ~Ok(Status) /\ Status \notin TableStatuses

\* the call failed with the error request() classified
FailsWith(e) ==
    /\ relayError = Some(e)
    /\ outcome.type # "value"
    /\ (pc = "done" /\ ~Logged("onError:threw")) => outcome = Rejected(e)

\* C11 as stated: the message of the GENERIC error is the body's message, or
\* "An error occurred" when the body supplies none.
C11_Original ==
    UnlistedFailure =>
        LET d == The(data)
        IN  FailsWith(RelayError(IF d.message \notin {None, ""} THEN d.message
                                 ELSE "An error occurred",
                                 Some(Status), d.code, d.details))

\* C11: a non-2xx response whose status is not listed fails with the GENERIC
\* base kind whose status is the response status, whose code and details are
\* the body's code and details unchanged, and whose message is the body's
\* message when it has a non-empty one, else the body's error field when it
\* has a non-empty one, else "An error occurred".
C11_GenericFallback ==
    UnlistedFailure =>
        LET d == The(data)
            message == IF d.message \notin {None, ""} THEN d.message
                       ELSE IF d.error \notin {None, ""} THEN d.error
                       ELSE "An error occurred"
        IN  /\ FailsWith(RelayError(message, Some(Status), d.code, d.details))
            /\ Kind(The(relayError)) = "GENERIC"

C11_Witness ==
    /\ Failed /\ UnlistedFailure /\ Status = 418
    /\ (The(data)).message = None /\ (The(data)).error = "denied"
    /\ outcome.error = Some(RelayError("denied", Some(418), None, NoDetails))

\* the network call failed with a value that is not a classified error
RawFetchFailure ==
    Logged("fetch:failed") /\ thrown # Nothing /\ ~InstanceOfRelayError(The(thrown))

\* C13 as stated: whatever the raw failure of the network call is, the call
\* fails with the NETWORK kind (code NETWORK_ERROR, no status, message "Network
\* request failed. Please check your connection.").
C13_Original ==
    RawFetchFailure =>
        /\ relayError # Nothing
        /\ Kind(The(relayError)) = "NETWORK"
        /\ (The(relayError)).code = "NETWORK_ERROR"
        /\ (The(relayError)).status = Nothing
        /\ (The(relayError)).message =
                "Network request failed. Please check your connection."

\* C13: a raw failure of the network call that is a TypeError, or whose
\* message is "Failed to fetch", is classified as the NETWORK kind (code
\* NETWORK_ERROR, no status, message "Network request failed. Please check
\* your connection."); every other raw failure is classified as the UNKNOWN
\* kind: the base class with code UNKNOWN_ERROR, no status, and the failure's
\* own message, or "An unknown error occurred" when it has none.
C13_NetworkOrUnknown ==
    RawFetchFailure =>
        LET e == The(thrown)
            r == The(relayError)
        IN  /\ relayError # Nothing
            /\ FailsWith(r)
            /\ r.status = Nothing
            /\ IF e.cls = "TypeError" \/ e.message = "Failed to fetch"
               THEN /\ Kind(r) = "NETWORK"
                    /\ r.code = "NETWORK_ERROR"
                    /\ r.message =
                         "Network request failed. Please check your connection."
               ELSE /\ Kind(r) = "UNKNOWN"
                    /\ r.cls = "RelayError"
                    /\ r.code = "UNKNOWN_ERROR"
                    /\ r.message = (IF e.message \in {None, ""}
                                    THEN "An unknown error occurred"
                                    ELSE e.message)

C13_Witness ==
    /\ Failed /\ RawFetchFailure
    /\ (The(thrown)).cls = "DOMException"
    /\ Kind(The(outcome.error)) = "UNKNOWN"
    /\ (The(outcome.error)).message = "The operation was aborted."

\* reading the body failed, or the body announced as JSON is not JSON
ParseFailed ==
    /\ Handled
    /\ LET r == The(response)
       IN  \/ r.body.kind = "unreadable"
           \/ IsJSON(r.contentType) /\ r.body.kind = "text"

\* C17: a failure while reading or parsing the response body is not
\* propagated as an error of its own: the parsed body is the empty object, a
\* 2xx response makes the call return the empty object, and a non-2xx response
\* makes it fail with the kind its status alone gives and the message "An
\* error occurred", no code, no details and no retry-after.
C17_ParseFailureIsEmptyObject ==
    ParseFailed =>
        /\ data = Some(EmptyObject)
        /\ Ok(Status) =>
                /\ pc = "done"
                /\ outcome = Resolved(EmptyObject)
                /\ relayError = Nothing /\ thrown = Nothing
        /\ ~Ok(Status) =>
                /\ relayError # Nothing
                /\ FailsWith(The(relayError))
                /\ thrown = relayError
                /\ LET e == The(relayError)
                   IN  /\ Kind(e) = (IF Status \in TableStatuses
                                     THEN TableKind(Status) ELSE "GENERIC")
                       /\ e.message = "An error occurred"
                       /\ e.details = NoDetails
                       /\ e.retryAfter = Nothing
                       /\ Status \notin TableStatuses => e.code = None

C17_Witness ==
    /\ pc = "done" /\ ParseFailed /\ Status = 200
    /\ (The(response)).body.text = "Bad gateway"
    /\ outcome = Resolved(EmptyObject)

\* the errors the call has produced so far: the classified one, the one the
\* caller got
ErrorsOfCall == relayError \cup outcome.error

\* C19: the RATE_LIMIT error of a 429 response carries as retryAfter exactly
\* the retry_after field of the body (nothing when the body has none), and no
\* error of another kind carries a retry-after value.
C19_RetryAfter ==
    /\ (Handled /\ Status = 429) =>
            /\ relayError # Nothing
            /\ FailsWith(The(relayError))
            /\ Kind(The(relayError)) = "RATE_LIMIT"
            /\ (The(relayError)).retryAfter = (The(data)).retry_after
            /\ (The(response)).body.kind = "json" /\ IsJSON((The(response)).contentType)
                    => (The(relayError)).retryAfter
                            = (The(response)).body.value.retry_after
    /\ \A e \in ErrorsOfCall : Kind(e) # "RATE_LIMIT" => e.retryAfter = Nothing

C19_Witness ==
    /\ Failed /\ Handled /\ Status = 429
    /\ (The(data)).retry_after = Some(7)
    /\ (The(outcome.error)).retryAfter = Some(7)

\* the message the class listed for a status has when it is given none
DefaultMessage(status) ==
    CASE status = 401 -> AuthenticationError(None, NoDetails).message
      [] status = 403 -> AuthorizationError(None, NoDetails).message
      [] status = 404 -> NotFoundError(None, NoDetails).message
      [] status \in {400, 422} -> ValidationError(None, NoDetails).message
      [] status = 429 -> RateLimitError(None, Nothing, NoDetails).message
      [] status \in {500, 502, 503, 504} -> ServerError(None, status, NoDetails).message

\* C12 as stated: a response with a listed status is classified to an error
\* whose message is the one the body supplies (its message, or failing that
\* its error field) and, when the body supplies none, the default message of
\* the kind ("Authentication failed", "Insufficient permissions", "Resource
\* not found", "Validation failed", "Rate limit exceeded", "Internal server
\* error").
C12_Original ==
    (Handled /\ Status \in TableStatuses) =>
        LET d == The(data)
        IN  /\ relayError # Nothing
            /\ (The(relayError)).message =
                    OrElse(d.message, OrElse(d.error, DefaultMessage(Status)))

(***************************************************************************)
(* Request construction: the same call, followed with many configurations  *)
(* and options and few responses.                                          *)
(***************************************************************************)
HeaderMap(auth, other, value) ==
    [k \in {"Authorization", other} |-> IF k = "Authorization" THEN auth ELSE value]

\* the base URL ending in "//" comes with one API key and no headers
ConfigsBuild ==
    {cfg \in
        [baseURL : {<<"https:", "/", "/", "api.relay.com", "/">>,
                    <<"https:", "/", "/", "api.relay.com">>,
                    <<"https:", "/", "/", "api.relay.com", "/", "/">>},
         apiKey : {"relay_live_k1", "relay_test_k2"}, timeout : {Nothing},
         headers : {EmptyMap, HeaderMap("Basic configured", "X-Tenant", "acme"),
                    [k \in {"authorization"} |-> "lower-case configured"],
                    [k \in {"User-Agent"} |-> "my-app/2.0"]},
         onRequest : BOOLEAN, onResponse : {FALSE}, onError : {FALSE}] :
        (cfg.baseURL[Len(cfg.baseURL)] = "/" /\ cfg.baseURL[Len(cfg.baseURL) - 1] = "/") =>
            (cfg.headers = EmptyMap /\ cfg.apiKey = "relay_live_k1")}

Queries == {Nothing, Some(<<>>), Some(<< <<(<<"page">>), Num(1)>> >>)}

AllOptionsBuild ==
    [path : {<<"/", "workflows">>, <<"/", "workflows", "?", "sort", "=", "name">>},
     method : {None, "POST", "DELETE"},
     headers : {EmptyMap, HeaderMap("Bearer per-call", "Content-Type", "text/plain"),
                [k \in {"X-Tenant"} |-> "other"]},
     body : {[t |-> "undefined", v |-> None], [t |-> "object", v |-> "\"name\":\"w\""],
             [t |-> "string", v |-> "raw"], [t |-> "string", v |-> ""],
             [t |-> "number", v |-> "0"], [t |-> "boolean", v |-> "false"],
             [t |-> "null", v |-> "null"]},
     query : Queries, timeout : {Nothing, Some(1)}, credentials : {None, "include"}]

\* a path that holds "?" and the empty query mapping come with plain options
OptionsBuild ==
    {o \in AllOptionsBuild :
        (Includes(o.path, "?") \/ o.query = Some(<<>>)) =>
            /\ o.headers = EmptyMap /\ o.body.t = "undefined"
            /\ o.timeout = Nothing /\ o.credentials = None}

ResponsesBuild ==
    [status : {200, 404}, contentType : {"application/json"}, body : {Unread}]

RawBodiesBuild == {raw \in RawBodies : raw.kind = "json" /\ raw.value.code = "E1"}

InitBuild == Constructed(ConfigsBuild)

NextBuild ==
    \/ \E o \in OptionsBuild : Request(o)
    \/ OnRequestReturns
    \/ OnRequestThrows(RawError("Error", "hook failed"))
    \/ \E r \in ResponsesBuild : FetchResolves(r)
    \/ FetchRejects(RawError("TypeError", "Failed to fetch"))
    \/ TimerFires
    \/ \E raw \in RawBodiesBuild : handleResponse(raw)
    \/ AwaitTimer

SpecBuild == InitBuild /\ [][NextBuild]_vars

\* C10: the headers handed to every network call hold Authorization =
\* "Bearer <token>", <token> being the API key given at construction, also
\* when the configured default headers or the per-call headers hold an
\* Authorization entry of their own.
C10_AuthorizationAlwaysBearerToken ==
    /\ \A i \in 1..Len(fetchCalls) :
        /\ "Authorization" \in DOMAIN fetchCalls[i].headers
        /\ fetchCalls[i].headers["Authorization"] = "Bearer " \o given.apiKey
    /\ Logged("fetch:start") => (Len(fetchCalls) = 1 /\ fetchCalls[1] = The(reqInit))

C10_Witness ==
    /\ Len(fetchCalls) = 1
    /\ given.apiKey = "relay_test_k2"
    /\ "Authorization" \in DOMAIN given.headers
    /\ "Authorization" \in DOMAIN (The(opts)).headers
    /\ (The(opts)).headers["Authorization"] = "Bearer per-call"
    /\ fetchCalls[1].headers["Authorization"] = "Bearer relay_test_k2"
    /\ Logged("onRequest:end")

(***************************************************************************)
(* RelayClient: construction of the top-level client, then one call made   *)
(* through it                                                              *)
(***************************************************************************)
\* !s for a string that may be undefined
Falsy(str) == str \in {None, ""}

ServiceNames ==
    {"workflows", "tools", "credentials", "channels", "apiKeys", "invitations",
     "webhooks"}

\* new RelayClient(cfg) has been asked for and its constructor has not run yet
NotConstructed(cfg) ==
    [state |-> "new", cfg |-> cfg, tenantId |-> None, httpClient |-> FALSE,
     services |-> {}, error |-> None]

\* the constructor threw new Error(message): there is no RelayClient
ConstructionFailed(cfg, message) ==
    [state |-> "threw", cfg |-> cfg, tenantId |-> None, httpClient |-> FALSE,
     services |-> {}, error |-> message]

\* the constructor returned
RelayClient(cfg) ==
    [state |-> "constructed", cfg |-> cfg, tenantId |-> cfg.tenantId,
     httpClient |-> TRUE, services |-> ServiceNames, error |-> None]

\* the fields of an HTTPClient that does not exist
NoHTTPClient ==
    [baseURL |-> <<>>, apiKey |-> None, timeout |-> 0, defaultHeaders |-> EmptyMap,
     onRequest |-> FALSE, onResponse |-> FALSE, onError |-> FALSE]

\* the configuration no HTTPClient was given
NoHTTPClientConfig ==
    [baseURL |-> <<>>, apiKey |-> None, timeout |-> Nothing, headers |-> EmptyMap,
     onRequest |-> FALSE, onResponse |-> FALSE, onError |-> FALSE]

\* httpClientConfig of the constructor
HTTPClientConfigOf(cfg) ==
    [baseURL |-> IF cfg.baseURL = Nothing
                 THEN <<"https:", "/", "/", "api.relay.com">>
                 ELSE The(cfg.baseURL),
     apiKey |-> cfg.apiKey, timeout |-> cfg.timeout, headers |-> cfg.headers,
     onRequest |-> cfg.onRequest, onResponse |-> cfg.onResponse,
     onError |-> cfg.onError]

\* a variant that does not validate the tenant identifier
NewRelayClient_NoTenantCheck ==
    /\ pc = "new"
    /\ LET cfg == (The(relay)).cfg
       IN  IF Falsy(cfg.apiKey)
           THEN /\ relay' = Some(ConstructionFailed(cfg, "API key is required"))
                /\ pc' = "threw"
                /\ UNCHANGED <<given, config>>
           ELSE /\ relay' = Some(RelayClient(cfg))
                /\ given' = HTTPClientConfigOf(cfg)
                /\ config' = Constructor(HTTPClientConfigOf(cfg))
                /\ pc' = "idle"
    /\ UNCHANGED <<peer, pure, wrapper, opts, reqInit, fetchCalls, timer, now, response,
                   data, relayError, outcome, settledAt, log, thrown>>

\* the constructor of RelayClient
NewRelayClient ==
    /\ pc = "new"
    /\ LET cfg == (The(relay)).cfg
       IN  IF Falsy(cfg.apiKey)
           THEN /\ relay' = Some(ConstructionFailed(cfg, "API key is required"))
                /\ pc' = "threw"
                /\ UNCHANGED <<given, config>>
           ELSE IF Falsy(cfg.tenantId)
           THEN /\ relay' = Some(ConstructionFailed(cfg, "Tenant ID is required"))
                /\ pc' = "threw"
                /\ UNCHANGED <<given, config>>
           ELSE /\ relay' = Some(RelayClient(cfg))
                /\ given' = HTTPClientConfigOf(cfg)
                /\ config' = Constructor(HTTPClientConfigOf(cfg))
                /\ pc' = "idle"
    /\ UNCHANGED <<peer, pure, wrapper, opts, reqInit, fetchCalls, timer, now, response,
                   data, relayError, outcome, settledAt, log, thrown>>

RelayConfigs ==
    [apiKey : {None, "", "relay_live_k1"}, tenantId : {None, "", "tenant_1"},
     baseURL : {Nothing, Some(<<"https:", "/", "/", "relay.example", "/">>)},
     timeout : {Nothing, Some(1)}, headers : {EmptyMap},
     onRequest : BOOLEAN, onResponse : {TRUE}, onError : {TRUE}]

\* the path a service method hands to the HTTPClient
OptionsClient ==
    [path : {<<"/", "api", "/", "tenant", "/", "tenant_1", "/", "workflows", "/">>},
     method : {None}, headers : {EmptyMap}, body : {[t |-> "undefined", v |-> None]},
     query : {Nothing}, timeout : {Nothing}, credentials : {None}]

ResponsesClient ==
    [status : {200, 404}, contentType : {"application/json"}, body : {Unread}]

InitClient ==
    /\ relay \in {Some(NotConstructed(cfg)) : cfg \in RelayConfigs}
    /\ given = NoHTTPClientConfig
    /\ config = NoHTTPClient
    /\ pc = "new"
    /\ NoCall
    /\ peer = Nothing
    /\ pure = Nothing
    /\ wrapper = Nothing

NextClient ==
    \/ NewRelayClient
    \/ \E o \in OptionsClient : Request(o)
    \/ OnRequestReturns
    \/ OnRequestThrows(RawError("Error", "hook failed"))
    \/ \E r \in ResponsesClient : FetchResolves(r)
    \/ FetchRejects(RawError("TypeError", "Failed to fetch"))
    \/ TimerFires
    \/ OnResponseReturns
    \/ OnResponseThrows(RawError("Error", "hook failed"))
    \/ \E raw \in RawBodiesBuild : handleResponse(raw)
    \/ OnErrorReturns
    \/ OnErrorThrows(RawError("Error", "hook failed"))
    \/ AwaitTimer

SpecClient == InitClient /\ [][NextClient]_vars

\* the configuration handed to new RelayClient
RelayConfig == (The(relay)).cfg

\* C14: constructing RelayClient with an empty or missing API key or tenant
\* identifier throws: the construction yields no HTTPClient and no service
\* object, and no hook runs and no network call is made for it, ever.
C14_ConstructionFailsFirst ==
    (relay # Nothing /\ pc # "new"
        /\ (Falsy(RelayConfig.apiKey) \/ Falsy(RelayConfig.tenantId))) =>
        /\ pc = "threw"
        /\ (The(relay)).state = "threw"
        /\ (The(relay)).error = (IF Falsy(RelayConfig.apiKey)
                                 THEN "API key is required"
                                 ELSE "Tenant ID is required")
        /\ ~(The(relay)).httpClient
        /\ given = NoHTTPClientConfig /\ config = NoHTTPClient
        /\ (The(relay)).services = {}
        /\ fetchCalls = <<>>
        /\ log = <<>>
        /\ outcome = Pending

C14_Witness ==
    /\ relay # Nothing /\ pc = "threw"
    /\ RelayConfig.apiKey = "relay_live_k1" /\ RelayConfig.tenantId = ""
    /\ RelayConfig.onRequest
    /\ (The(relay)).error = "Tenant ID is required"

(***************************************************************************)
(* Service paths (BaseService and the services without a tenant scope)     *)
(***************************************************************************)
\* str.startsWith("/")
StartsWithSlash(str) == str # <<>> /\ str[1] = "/"

\* `/api/tenant/${this.tenantId}`
TenantBasePath(tenantId) == <<"/", "api", "/", "tenant", "/", tenantId>>

\* a variant that adds no "/" to the empty path
buildPath_EmptyStaysEmpty(this, path) ==
    LET cleanPath == IF StartsWithSlash(path) \/ path = <<>> THEN path
                     ELSE <<"/">> \o path
    IN  TenantBasePath(this.tenantId) \o this.basePath \o cleanPath

\* this.buildPath(path), this being a service [tenantId, basePath]
buildPath(this, path) ==
    LET tenantBasePath == TenantBasePath(this.tenantId)
        cleanPath == IF StartsWithSlash(path) THEN path ELSE <<"/">> \o path
    IN  tenantBasePath \o this.basePath \o cleanPath

buildAbsolutePath(this, path) == path

\* InvitationService
buildInvitationPath(this, path) ==
    buildAbsolutePath(this, <<"/", "invitations">> \o path)

\* APIKeyService
buildKeyPath(this, path) == buildAbsolutePath(this, <<"/", "api-keys">> \o path)

(***************************************************************************)
(* The utility functions and the path builders, each applied once to       *)
(* arguments of its own                                                    *)
(***************************************************************************)
MaxEntries == 2

QueryKeys == {<<"page">>, <<"tags">>, <<"is_active">>}

QueryValues ==
    {Undefined, Null, Num(1), Bool(TRUE), Str(<<>>), Str(<<"a", " ", "b">>),
     Array(<<>>), Array(<<Str(<<"a">>), Str(<<"b">>)>>), Array(<<Str(<<"a">>), Null>>)}

\* Object.entries(params) of the mappings with at most MaxEntries keys
Mappings ==
    UNION {{m \in [1..n -> QueryKeys \X QueryValues] :
                \A i, j \in 1..n : i # j => m[i][1] # m[j][1]} : n \in 0..MaxEntries}

URLs ==
    {<<"/", "api", "/", "workflows">>,
     <<"/", "api", "/", "workflows", "?", "page", "=", "1">>}

TenantServices ==
    [tenantId : {"tenant_1", "t2"},
     basePath : {<<"/", "workflows">>, <<"/", "tools">>, <<"/", "credentials">>,
                 <<"/", "channels">>, <<"/", "webhooks", "/", "wait">>}]

RootServices == [tenantId : {"tenant_1", "t2"}, basePath : {<<>>}]

Ids == {"id_1", "id_2"}

\* the arguments buildPath is called with
Rests ==
    {<<>>} \cup {<<"/", id>> : id \in Ids} \cup {<<id>> : id \in Ids}
    \cup {<<"/", id, "/", "execute">> : id \in Ids}

\* the arguments buildKeyPath is called with
KeyRests ==
    {<<>>} \cup {<<"/", id>> : id \in Ids} \cup {<<"/", id, "/", "revoke">> : id \in Ids}

\* the arguments buildInvitationPath is called with
InvitationRests ==
    KeyRests \cup {<<"/", "pending">>, <<"/", "public", "/", "validate">>}
    \cup {<<"/", "public", "/", "token", "/", id>> : id \in Ids}

NoService == [tenantId |-> None, basePath |-> <<>>]

\* one application of a function: its arguments and what it returned
Applied(fn, url, params, this, path, result) ==
    [fn |-> fn, url |-> url, params |-> params, this |-> this, path |-> path,
     result |-> result]

Apply(call) ==
    /\ pure = Nothing
    /\ pure' = Some(call)
    /\ UNCHANGED <<callvars, relay, peer, wrapper>>

CallBuildQueryString(params) ==
    Apply(Applied("buildQueryString", <<>>, params, NoService, <<>>,
                  buildQueryString(params)))

CallAppendQueryParams(url, params) ==
    Apply(Applied("appendQueryParams", url, params, NoService, <<>>,
                  appendQueryParams(url, params)))

CallBuildPath(this, path) ==
    Apply(Applied("buildPath", <<>>, <<>>, this, path, buildPath(this, path)))

CallBuildInvitationPath(this, path) ==
    Apply(Applied("buildInvitationPath", <<>>, <<>>, this, path,
                  buildInvitationPath(this, path)))

CallBuildKeyPath(this, path) ==
    Apply(Applied("buildKeyPath", <<>>, <<>>, this, path, buildKeyPath(this, path)))

InitPure ==
    /\ given = NoHTTPClientConfig
    /\ config = NoHTTPClient
    /\ pc = "none"
    /\ NoCall
    /\ relay = Nothing
    /\ peer = Nothing
    /\ pure = Nothing
    /\ wrapper = Nothing

NextPure ==
    \/ \E params \in Mappings : CallBuildQueryString(params)
    \/ \E url \in URLs, params \in Mappings : CallAppendQueryParams(url, params)
    \/ \E this \in TenantServices, path \in Rests : CallBuildPath(this, path)
    \/ \E this \in RootServices, path \in InvitationRests :
            CallBuildInvitationPath(this, path)
    \/ \E this \in RootServices, path \in KeyRests : CallBuildKeyPath(this, path)

SpecPure == InitPure /\ [][NextPure]_vars

\* the function applied, once it has been
Called(fn) == pure # Nothing /\ (The(pure)).fn = fn

\* the pieces of str between the occurrences of tok; none for the empty string
RECURSIVE SplitOn(_, _)
SplitOn(str, tok) ==
    IF str = <<>> THEN <<>>
    ELSE IF ~Includes(str, tok) THEN <<str>>
    ELSE LET i == CHOOSE k \in 1..Len(str) :
                      str[k] = tok /\ \A j \in 1..(k - 1) : str[j] # tok
         IN  <<SubSeq(str, 1, i - 1)>>
             \o (IF i = Len(str) THEN << <<>> >>
                 ELSE SplitOn(SubSeq(str, i + 1, Len(str)), tok))

\* the <<key, value>> pairs a mapping asks for, entry by entry: none for a
\* null or undefined value, one per item of an array, one for a scalar
RECURSIVE ExpectedPairs(_)
ExpectedPairs(params) ==
    IF params = <<>> THEN <<>>
    ELSE LET key == Head(params)[1]
             value == Head(params)[2]
             here == CASE value.t \in {"undefined", "null"} -> <<>>
                       [] value.t = "array" ->
                            [i \in 1..Len(value.v) |-> <<key, value.v[i]>>]
                       [] OTHER -> << <<key, value>> >>
         IN  here \o ExpectedPairs(Tail(params))

\* C15: buildQueryString emits no pair for a key whose value is null or
\* undefined, one key=element pair per element of an array value in element
\* order, exactly one key=value pair for a scalar value, and keeps the keys in
\* the order of the mapping, values being stringified and the pairs joined
\* by "&"; {page: 1, is_active: true} yields "page=1&is_active=true" and
\* {tags: ["a","b"]} yields "tags=a&tags=b".
C15_QueryString ==
    Called("buildQueryString") =>
        LET params == (The(pure)).params
            result == (The(pure)).result
            pairs == SplitOn(result, "&")
            expected == ExpectedPairs(params)
        IN  /\ Len(pairs) = Len(expected)
            /\ \A i \in 1..Len(pairs) :
                    pairs[i] = EncodeString(expected[i][1]) \o <<"=">>
                               \o EncodeString(String(expected[i][2]))
            /\ params = << <<(<<"page">>), Num(1)>>, <<(<<"is_active">>), Bool(TRUE)>> >>
                    => result = <<"page", "=", "1", "&", "is_active", "=", "true">>
            /\ params = << <<(<<"tags">>), Array(<<Str(<<"a">>), Str(<<"b">>)>>)>> >>
                    => result = <<"tags", "=", "a", "&", "tags", "=", "b">>

C15_Witness ==
    /\ Called("buildQueryString")
    /\ (The(pure)).params = << <<(<<"tags">>), Array(<<Str(<<"a">>), Str(<<"b">>)>>)>>,
                               <<(<<"page">>), Null>> >>
    /\ (The(pure)).result = <<"tags", "=", "a", "&", "tags", "=", "b">>

\* the mapping asks for no pair at all: it is empty, or holds only null and
\* undefined values and empty arrays
AsksForNoPair(params) ==
    \A i \in 1..Len(params) :
        LET value == params[i][2]
        IN  \/ value.t \in {"undefined", "null"}
            \/ value.t = "array" /\ value.v = <<>>

\* C16: appendQueryParams(url, params) returns url unchanged when params
\* serializes to the empty string, which is when params is empty or holds only
\* null and undefined values and empty arrays; otherwise it returns url, then
\* "&" if url contains "?" and "?" if it does not, then the query string.
C16_AppendQueryParams ==
    Called("appendQueryParams") =>
        LET url == (The(pure)).url
            params == (The(pure)).params
            result == (The(pure)).result
            queryString == buildQueryString(params)
        IN  /\ (queryString = <<>>) <=> AsksForNoPair(params)
            /\ AsksForNoPair(params) => result = url
            /\ ~AsksForNoPair(params) =>
                    /\ Len(result) = Len(url) + 1 + Len(queryString)
                    /\ SubSeq(result, 1, Len(url)) = url
                    /\ result[Len(url) + 1] = (IF Includes(url, "?") THEN "&" ELSE "?")
                    /\ SubSeq(result, Len(url) + 2, Len(result)) = queryString

C16_Witness ==
    /\ Called("appendQueryParams")
    /\ (The(pure)).url = <<"/", "api", "/", "workflows", "?", "page", "=", "1">>
    /\ (The(pure)).params = << <<(<<"is_active">>), Bool(TRUE)>>,
                               <<(<<"tags">>), Array(<<>>)>> >>
    /\ (The(pure)).result = <<"/", "api", "/", "workflows", "?", "page", "=", "1",
                              "&", "is_active", "=", "true">>

\* str holds the prefix of the tenant-scoped paths, "/api/tenant/"
HoldsTenantPrefix(str) ==
    \E i \in 1..Len(str) :
        i + 4 <= Len(str) /\ SubSeq(str, i, i + 4) = <<"/", "api", "/", "tenant", "/">>

callstate ==
    <<given, config, pc, opts, reqInit, fetchCalls, timer, response, data, relayError,
      outcome, settledAt, log, thrown>>

\* the locals of the other call before it is made
PeerIdle ==
    [pc |-> "idle", opts |-> Nothing, reqInit |-> Nothing,
     timer |-> [state |-> "unset", armedAt |-> 0, due |-> 0], response |-> Nothing,
     data |-> Nothing, relayError |-> Nothing, outcome |-> Pending,
     overlapped |-> FALSE]

\* the first call is suspended at one of its awaits
InFlight == pc \notin {"idle", "done"}

\* a step of the other call: it leaves the HTTPClient, the clock and the
\* first call alone; overlapped records that it ran while the first call was
\* suspended
PeerStep(p) ==
    /\ peer' = Some([p EXCEPT !.overlapped = @ \/ InFlight])
    /\ UNCHANGED <<callvars, relay, pure, wrapper>>

\* the catch block of request() in the other call
PeerCatch(p, e) ==
    IF handleErrorThrows(e)
    THEN [p EXCEPT !.outcome = Rejected(RawError("TypeError",
                                                 "Cannot read properties of null")),
                   !.pc = "done"]
    ELSE IF config.onError
         THEN [p EXCEPT !.relayError = Some(handleError(e)), !.pc = "onError"]
         ELSE [p EXCEPT !.relayError = Some(handleError(e)),
                        !.outcome = Rejected(handleError(e)), !.pc = "done"]

\* setTimeout and fetch in the other call
PeerIssueFetch(p, o) ==
    [p EXCEPT !.timer = [state |-> "armed", armedAt |-> now, due |-> now + TimeoutOf(o)],
              !.pc = "race"]

\* request(path, options) of the other call up to its first await
PeerRequested(p, o) ==
    IF HasBody(o) /\ o.body.t # "string" /\ StringifyThrows(o.body)
    THEN [p EXCEPT !.opts = Some(o), !.pc = "done",
                   !.outcome = Rejected(RawError("TypeError",
                                        "Converting circular structure to JSON"))]
    ELSE LET q == [p EXCEPT !.opts = Some(o), !.reqInit = Some(BuildRequest(o))]
         IN  IF config.onRequest THEN [q EXCEPT !.pc = "onRequest"]
             ELSE PeerIssueFetch(q, o)

\* a variant that keeps the timeout of the call in the HTTPClient
PeerRequest_KeepsTimeout(o) ==
    /\ peer # Nothing /\ (The(peer)).pc = "idle"
    /\ peer' = Some([PeerRequested(The(peer), o) EXCEPT !.overlapped = @ \/ InFlight])
    /\ config' = [config EXCEPT !.timeout = TimeoutOf(o)]
    /\ UNCHANGED <<given, pc, opts, reqInit, fetchCalls, timer, now, response, data,
                   relayError, outcome, settledAt, log, thrown, relay, pure,
                   wrapper>>

PeerRequest(o) ==
    /\ peer # Nothing /\ (The(peer)).pc = "idle"
    /\ PeerStep(PeerRequested(The(peer), o))

PeerOnRequestReturns ==
    /\ peer # Nothing /\ (The(peer)).pc = "onRequest"
    /\ PeerStep(PeerIssueFetch(The(peer), The((The(peer)).opts)))

PeerOnRequestThrows(e) ==
    /\ peer # Nothing /\ (The(peer)).pc = "onRequest"
    /\ PeerStep([The(peer) EXCEPT !.outcome = Rejected(e), !.pc = "done"])

PeerFetchResolves(r) ==
    /\ peer # Nothing /\ (The(peer)).pc = "race"
    /\ PeerStep([The(peer) EXCEPT !.response = Some(r),
                                  !.pc = IF config.onResponse THEN "onResponse"
                                         ELSE "handleResponse"])

PeerFetchRejects(e) ==
    /\ peer # Nothing /\ (The(peer)).pc = "race"
    /\ PeerStep(PeerCatch(The(peer), e))

PeerTimerFires ==
    /\ peer # Nothing
    /\ (The(peer)).timer.state = "armed"
    /\ now = (The(peer)).timer.due
    /\ LET p == [The(peer) EXCEPT !.timer.state = "fired"]
       IN  IF p.pc = "race"
           THEN PeerStep(PeerCatch(p, TimeoutError("Request timeout after "
                                        \o ToString(TimeoutOf(The(p.opts))) \o "ms",
                                        NoDetails)))
           ELSE PeerStep(p)

PeerOnResponseReturns ==
    /\ peer # Nothing /\ (The(peer)).pc = "onResponse"
    /\ PeerStep([The(peer) EXCEPT !.pc = "handleResponse"])

PeerOnResponseThrows(e) ==
    /\ peer # Nothing /\ (The(peer)).pc = "onResponse"
    /\ PeerStep(PeerCatch(The(peer), e))

PeerHandleResponse(raw) ==
    /\ peer # Nothing /\ (The(peer)).pc = "handleResponse"
    /\ LET r == The((The(peer)).response)
           d == ParseBody(r.contentType, raw)
           p == [The(peer) EXCEPT !.response = Some([r EXCEPT !.body = raw]),
                                  !.data = Some(d)]
       IN  IF ~Ok(r.status)
           THEN PeerStep(PeerCatch(p, createErrorFromResponse(r.status, d)))
           ELSE PeerStep([p EXCEPT !.outcome = Resolved(d), !.pc = "done"])

PeerOnErrorReturns ==
    /\ peer # Nothing /\ (The(peer)).pc = "onError"
    /\ PeerStep([The(peer) EXCEPT !.outcome = Rejected(The((The(peer)).relayError)),
                                  !.pc = "done"])

PeerOnErrorThrows(e) ==
    /\ peer # Nothing /\ (The(peer)).pc = "onError"
    /\ PeerStep([The(peer) EXCEPT !.outcome = Rejected(e), !.pc = "done"])

PeerTimerDue ==
    /\ peer # Nothing
    /\ (The(peer)).timer.state = "armed" /\ (The(peer)).timer.due <= now

\* one unit of time passes while a call is suspended or a timer is armed; a
\* timer that is due runs first
ClockTick ==
    /\ \/ InFlight \/ timer.state = "armed"
       \/ (The(peer)).pc \notin {"idle", "done"} \/ (The(peer)).timer.state = "armed"
    /\ ~TimerDue /\ ~PeerTimerDue
    /\ now < MaxTicks
    /\ now' = now + 1
    /\ UNCHANGED <<aux, callstate>>

ConfigsConcurrent ==
    {cfg \in Configs : /\ cfg.timeout = Some(2)
                       /\ cfg.onRequest = cfg.onError /\ cfg.onResponse = cfg.onError}

OptionsConcurrent ==
    {o \in Options : o.body.t = "undefined" /\ o.timeout \in {Nothing, Some(1)}}

ResponsesConcurrent ==
    {r \in Responses : r.status \in {200, 404} /\ IsJSON(r.contentType)}

HookFailed == RawError("Error", "hook failed")

InitConcurrent ==
    /\ given \in ConfigsConcurrent
    /\ config = Constructor(given)
    /\ pc = "idle"
    /\ NoCall
    /\ relay = Nothing
    /\ peer = Some(PeerIdle)
    /\ pure = Nothing
    /\ wrapper = Nothing

NextConcurrent ==
    \/ \E o \in OptionsConcurrent : Request(o)
    \/ OnRequestReturns
    \/ OnRequestThrows(HookFailed)
    \/ \E r \in ResponsesConcurrent : FetchResolves(r)
    \/ FetchRejects(RawError("TypeError", "Failed to fetch"))
    \/ TimerFires
    \/ OnResponseReturns
    \/ OnResponseThrows(HookFailed)
    \/ \E raw \in RawBodiesBuild : handleResponse(raw)
    \/ OnErrorReturns
    \/ OnErrorThrows(HookFailed)
    \/ \E o \in OptionsConcurrent : PeerRequest(o)
    \/ PeerOnRequestReturns
    \/ PeerOnRequestThrows(HookFailed)
    \/ \E r \in ResponsesConcurrent : PeerFetchResolves(r)
    \/ PeerFetchRejects(RawError("TypeError", "Failed to fetch"))
    \/ PeerTimerFires
    \/ PeerOnResponseReturns
    \/ PeerOnResponseThrows(HookFailed)
    \/ \E raw \in RawBodiesBuild : PeerHandleResponse(raw)
    \/ PeerOnErrorReturns
    \/ PeerOnErrorThrows(HookFailed)
    \/ ClockTick

SpecConcurrent == InitConcurrent /\ [][NextConcurrent]_vars

\* C18: whatever steps another request() call on the same HTTPClient takes,
\* and in whatever order the steps of the two calls interleave, the
\* configuration of the HTTPClient is never modified and every step that
\* changes the state of a call is a step the call takes when it runs alone
\* with the same arguments, network response and timer: its outcome is the
\* one it has alone.
C18_CallsAreIndependent == [][Next]_callstate

C18_Witness ==
    /\ pc = "done" /\ outcome.type = "value"
    /\ peer # Nothing /\ (The(peer)).pc = "done" /\ (The(peer)).overlapped
    /\ (The(peer)).outcome.type = "error"
    /\ Kind(The((The(peer)).outcome.error)) = "TIMEOUT"
    /\ config = Constructor(given)

(***************************************************************************)
(* Construction of the request in detail                                   *)
(***************************************************************************)
\* the network call of the call followed, once issued
Issued == Len(fetchCalls) = 1
Sent == fetchCalls[1]

\* C21: every header other than Authorization is sent with the per-call
\* value if the call supplies that key, else with the default value given at
\* construction if any, else with the fixed default (Content-Type:
\* application/json, User-Agent: relay-api-client-typescript/1.0.0); no other
\* header is sent.
C21_HeaderPrecedence ==
    Issued =>
        LET perCall == (The(opts)).headers
            configured == given.headers
        IN  /\ DOMAIN Sent.headers =
                    DOMAIN perCall \cup DOMAIN configured
                    \cup {"Content-Type", "User-Agent", "Authorization"}
            /\ \A k \in DOMAIN Sent.headers \ {"Authorization"} :
                    Sent.headers[k] =
                        IF k \in DOMAIN perCall THEN perCall[k]
                        ELSE IF k \in DOMAIN configured THEN configured[k]
                        ELSE IF k = "Content-Type" THEN "application/json"
                        ELSE "relay-api-client-typescript/1.0.0"

C21_Witness ==
    /\ Issued
    /\ given.headers = [k \in {"User-Agent"} |-> "my-app/2.0"]
    /\ "Content-Type" \in DOMAIN (The(opts)).headers
    /\ Sent.headers["User-Agent"] = "my-app/2.0"
    /\ Sent.headers["Content-Type"] = "text/plain"

\* C22 as stated: a call whose method is not GET and whose options carry a
\* body, whatever value other than undefined it is, sends that value unchanged
\* when it is a string and its JSON encoding otherwise; a GET call sends no
\* body.
C22_Original ==
    Issued =>
        LET o == The(opts)
        IN  /\ MethodOf(o) = "GET" => Sent.body = Nothing
            /\ (MethodOf(o) # "GET" /\ o.body.t # "undefined") =>
                    Sent.body = Some(IF o.body.t = "string" THEN o.body.v
                                     ELSE JSONStringify(o.body))

\* C23: the URL of the request is the normalized base URL followed by the
\* path, the normalized base URL being the configured one without its last
\* character when that is a slash (so a base URL ending in "//" keeps one
\* slash) and unchanged otherwise; the serialization of a query mapping, when
\* there is one and it is not empty, follows after "&" if base URL and path
\* hold a "?" and after "?" if they do not.
C23_URL ==
    Issued =>
        LET base == given.baseURL
            n == Len(base)
            normalized == IF n > 0 /\ base[n] = "/" THEN SubSeq(base, 1, n - 1)
                          ELSE base
            o == The(opts)
            plain == normalized \o o.path
            queryString == IF o.query = Nothing THEN <<>>
                           ELSE buildQueryString(The(o.query))
        IN  /\ config.baseURL = normalized
            /\ (n > 1 /\ base[n] = "/" /\ base[n - 1] = "/") =>
                    normalized[Len(normalized)] = "/"
            /\ Sent.url = IF queryString = <<>> THEN plain
                          ELSE plain \o <<(IF Includes(plain, "?") THEN "&" ELSE "?")>>
                               \o queryString

C23_Witness ==
    /\ Issued
    /\ given.baseURL = <<"https:", "/", "/", "api.relay.com", "/", "/">>
    /\ Sent.url = <<"https:", "/", "/", "api.relay.com", "/", "/", "workflows", "?",
                    "sort", "=", "name", "&", "page", "=", "1">>

(***************************************************************************)
(* Hooks, timer and failures after a response                              *)
(***************************************************************************)
\* where ev stands in the log, 0 when it does not
Position(ev) ==
    IF Logged(ev) THEN CHOOSE i \in 1..Len(log) : log[i] = ev ELSE 0

\* C24: a configured post-response hook is invoked exactly once on every call
\* that received a Response, whatever its status, with the Response whose
\* body has not been read yet; it is not invoked on a call that received
\* none, be it for a timeout or for a failure of the network call.
C24_ResponseHook ==
    /\ Count("onResponse:start") =
            (IF config.onResponse /\ response # Nothing THEN 1 ELSE 0)
    /\ (Logged("timeout") \/ Logged("fetch:failed")) =>
            (response = Nothing /\ ~Logged("onResponse:start"))
    /\ pc = "onResponse" =>
            ((The(response)).body = Unread /\ data = Nothing /\ ~Logged("parse"))
    /\ (Logged("onResponse:start") /\ Logged("parse")) =>
            Position("onResponse:start") < Position("parse")

C24_Witness ==
    /\ Failed /\ Handled /\ Status = 404
    /\ config.onResponse
    /\ Count("onResponse:start") = 1 /\ Logged("onResponse:end")

(***************************************************************************)
(* The convenience methods get, post, put, patch and delete.  The options  *)
(* argument is a RequestOptions without a path; a missing argument is      *)
(* undefined.                                                              *)
(***************************************************************************)
\* the options arguments: fields that are set or undefined
OptionsArguments ==
    [method : {None, "PATCH"},
     headers : {EmptyMap, [k \in {"X-Tenant"} |-> "other"]},
     body : [t : {"undefined"}, v : {None}] \cup [t : {"string"}, v : {"from options"}],
     query : {Nothing, Some(<< <<(<<"sort">>), Str(<<"name">>)>> >>)},
     timeout : {Nothing, Some(1)}, credentials : {None, "include"}]

\* {...undefined}: no field is set
NoOptions ==
    CHOOSE o \in OptionsArguments :
        /\ o.method = None /\ o.headers = EmptyMap /\ o.body.t = "undefined"
        /\ o.query = Nothing /\ o.timeout = Nothing /\ o.credentials = None

\* request(path, {...options, method, query, body})
Forward(path, options, method, query, body) ==
    [path |-> path, method |-> method, headers |-> options.headers, body |-> body,
     query |-> query, timeout |-> options.timeout, credentials |-> options.credentials]

\* a variant that spreads options last: {method: "GET", query, ...options}
get_OptionsLast(path, query, options) ==
    Forward(path, options,
            IF options.method = None THEN "GET" ELSE options.method,
            IF options.query = Nothing THEN query ELSE options.query,
            options.body)

get(path, query, options) == Forward(path, options, "GET", query, options.body)
post(path, body, options) == Forward(path, options, "POST", options.query, body)
put(path, body, options) == Forward(path, options, "PUT", options.query, body)
patch(path, body, options) == Forward(path, options, "PATCH", options.query, body)
delete(path, options) == Forward(path, options, "DELETE", options.query, options.body)

\* the call of a convenience method: its name and arguments, and the options
\* it hands to request()
Wrapped(name, path, query, body, options, forwarded) ==
    [name |-> name, path |-> path, query |-> query, body |-> body,
     options |-> options, forwarded |-> forwarded]

\* a convenience method is entered: its call is recorded
Enter(name, path, query, body, options, forwarded) ==
    /\ pc = "idle"
    /\ wrapper = Nothing
    /\ wrapper' = Some(Wrapped(name, path, query, body, options, forwarded))
    /\ UNCHANGED <<callvars, relay, peer, pure>>

Get(path, query, options) ==
    /\ Enter("get", path, query, NoOptions.body, options, get(path, query, options))

Post(path, body, options) ==
    /\ Enter("post", path, Nothing, body, options, post(path, body, options))

Put(path, body, options) ==
    /\ Enter("put", path, Nothing, body, options, put(path, body, options))

Patch(path, body, options) ==
    /\ Enter("patch", path, Nothing, body, options, patch(path, body, options))

Delete(path, options) ==
    /\ Enter("delete", path, Nothing, NoOptions.body, options, delete(path, options))

\* return this.request(path, {...})
RequestThroughWrapper ==
    /\ wrapper # Nothing
    /\ Request((The(wrapper)).forwarded)

ConfigsWrap ==
    [baseURL : BaseURLs, apiKey : {"relay_live_k1"}, timeout : {Some(2)},
     headers : {EmptyMap}, onRequest : BOOLEAN, onResponse : {FALSE},
     onError : {FALSE}]

PathsWrap == {<<"/", "workflows">>}

QueriesWrap == {Nothing, Some(<< <<(<<"page">>), Num(1)>> >>)}

BodiesWrap ==
    [t : {"undefined"}, v : {None}] \cup [t : {"object"}, v : {"\"name\":\"w\""}]
    \cup [t : {"string"}, v : {"raw"}]

\* options arguments: none, headers and a timeout, fields the method sets
OptionsWrap ==
    {o \in OptionsArguments :
        LET plain == o.headers = EmptyMap /\ o.timeout = Nothing /\ o.credentials = None
            rich == o.headers # EmptyMap /\ o.timeout # Nothing /\ o.credentials # None
            unset == o.method = None /\ o.query = Nothing /\ o.body.t = "undefined"
            set == o.method # None /\ o.query # Nothing /\ o.body.t # "undefined"
        IN  (plain /\ unset) \/ (rich /\ unset) \/ (plain /\ set)}

InitWrap == Constructed(ConfigsWrap)

NextWrap ==
    \/ \E path \in PathsWrap, query \in QueriesWrap, options \in OptionsWrap :
            Get(path, query, options)
    \/ \E path \in PathsWrap, body \in BodiesWrap, options \in OptionsWrap :
            Post(path, body, options)
    \/ \E path \in PathsWrap, body \in BodiesWrap, options \in OptionsWrap :
            Put(path, body, options)
    \/ \E path \in PathsWrap, body \in BodiesWrap, options \in OptionsWrap :
            Patch(path, body, options)
    \/ \E path \in PathsWrap, options \in OptionsWrap : Delete(path, options)
    \/ RequestThroughWrapper
    \/ OnRequestReturns
    \/ OnRequestThrows(RawError("Error", "hook failed"))
    \/ \E r \in ResponsesBuild : FetchResolves(r)
    \/ FetchRejects(RawError("TypeError", "Failed to fetch"))
    \/ TimerFires
    \/ \E raw \in RawBodiesBuild : handleResponse(raw)
    \/ Tick

SpecWrap == InitWrap /\ [][NextWrap]_vars

\* the method a convenience method stands for
MethodOfWrapper(name) ==
    CASE name = "get" -> "GET"
      [] name = "post" -> "POST"
      [] name = "put" -> "PUT"
      [] name = "patch" -> "PATCH"
      [] name = "delete" -> "DELETE"

\* what the claim says the convenience method w calls request() with: the
\* options argument with the method, and the query or body argument, put over it
RequestOf(w) ==
    [path |-> w.path,
     method |-> MethodOfWrapper(w.name),
     headers |-> w.options.headers,
     body |-> IF w.name \in {"post", "put", "patch"} THEN w.body ELSE w.options.body,
     query |-> IF w.name = "get" THEN w.query ELSE w.options.query,
     timeout |-> w.options.timeout,
     credentials |-> w.options.credentials]

\* a step of the call request(path, o) made directly
StepOfRequest(o) ==
    \/ Request(o)
    \/ OnRequestReturns
    \/ OnRequestThrows(RawError("Error", "hook failed"))
    \/ \E r \in ResponsesBuild : FetchResolves(r)
    \/ FetchRejects(RawError("TypeError", "Failed to fetch"))
    \/ TimerFires
    \/ \E raw \in RawBodiesBuild : handleResponse(raw)
    \/ Tick

\* the call made through a convenience method runs request() with exactly
\* the options of the claim, and the network call carries the method and the
\* query or body argument of the convenience method
WrapperForwards ==
    wrapper # Nothing =>
        LET w == The(wrapper)
            o == RequestOf(w)
        IN  /\ opts # Nothing => opts = Some(o)
            /\ Issued =>
                /\ Sent = BuildRequest(o)
                /\ Sent.method = MethodOfWrapper(w.name)
                /\ Sent.url = BuildURL([o EXCEPT !.query =
                                IF w.name = "get" THEN w.query ELSE w.options.query])
                /\ w.name \in {"post", "put", "patch"} =>
                        Sent.body = SerializeBody([o EXCEPT !.body = w.body])
                /\ w.name = "get" => Sent.body = Nothing

\* C25: a call made through get, post, put, patch or delete is the call
\* request(path, {...options, method, query or body}): it runs with those
\* options, every one of its steps is a step of that request() call, so the
\* network call and the outcome are the same, and the method and the query or
\* body argument of the convenience method win over the same-named fields of
\* its options argument.
C25_WrappersForward ==
    /\ []WrapperForwards
    /\ [][wrapper' # Nothing /\ StepOfRequest(RequestOf(The(wrapper')))]_callvars

C25_Witness ==
    /\ wrapper # Nothing /\ (The(wrapper)).name = "get"
    /\ (The(wrapper)).options.method = "PATCH"
    /\ (The(wrapper)).query = Some(<< <<(<<"page">>), Num(1)>> >>)
    /\ pc = "done" /\ outcome.type = "value"
    /\ Issued /\ Sent.method = "GET" /\ Sent.body = Nothing
    /\ Sent.url = <<"https:", "/", "/", "api.relay.com", "/", "workflows", "?",
                    "page", "=", "1">>

(***************************************************************************)
(* The fields of the classified error of a response.                       *)
(***************************************************************************)
\* request() has classified the failure of the response it handled
ClassifiedResponse == Handled /\ ~Ok(Status) /\ relayError # Nothing

\* C26 as stated: the status of the classified error of a non-2xx response is
\* the HTTP status of that response.
C26_Original ==
    ClassifiedResponse => (The(relayError)).status = Some(Status)

(***************************************************************************)
(* The timer after the network call has delivered a response.              *)
(***************************************************************************)
\* the timer ran out after the response arrived and before the call settled
TimerFiredAfterResponse ==
    /\ response # Nothing /\ timer.state = "fired"
    /\ settledAt # Nothing => The(settledAt) > timer.due

\* C27: once the network call has delivered a response, the call never fails
\* with a TIMEOUT error: a timer that fires during the post-response hook or
\* the body read leaves the call where it is, and the call ends with the
\* result or the error of the response (or of the hook).
C27_NoTimeoutAfterResponse ==
    /\ response # Nothing =>
            /\ ~Logged("timeout")
            /\ \A e \in ErrorsOfCall \cup thrown : Kind(e) # "TIMEOUT"
    /\ (TimerFiredAfterResponse /\ Handled /\ pc = "done" /\ NoHookFailed) =>
            IF Ok(Status) THEN outcome = Resolved(The(data))
            ELSE outcome = Rejected(createErrorFromResponse(Status, The(data)))

C27_Witness ==
    /\ TimerFiredAfterResponse /\ Handled /\ pc = "done"
    /\ config.onResponse /\ Logged("onResponse:end")
    /\ outcome.type = "value"

(***************************************************************************)
(* Failures after a response was received.                                 *)
(***************************************************************************)
\* C28 as stated: an error of the NETWORK kind is produced only when no
\* response was received.
C28_Original ==
    \A e \in ErrorsOfCall : Kind(e) = "NETWORK" => response = Nothing

(***************************************************************************)
(* The error hook and the timer of a call that has settled.                *)
(***************************************************************************)
\* what the caller and the hooks have seen of the call
settled == <<pc, outcome, relayError, thrown, settledAt, log>>

\* the timer ran out after the call had settled
TimerFiredLate ==
    /\ pc = "done" /\ timer.state = "fired"
    /\ The(settledAt) < timer.due

ErrorHookOnFailureOnly ==
    /\ Count("onError:start") <= 1
    /\ Logged("onError:start") =>
            /\ config.onError
            /\ relayError # Nothing
            /\ outcome.type # "value"
    /\ outcome.type = "value" =>
            /\ ~Logged("onError:start")
            /\ relayError = Nothing
    /\ TimerFiredLate => ~Logged("timeout")

\* C29: the error hook is invoked at most once in a call, with the classified
\* error, and only in a call that fails; a call that returns a result never
\* invokes it, and the timer of a settled call, which is not cancelled and
\* fires later, changes neither the outcome nor anything the hooks have seen.
C29_ErrorHook ==
    /\ []ErrorHookOnFailureOnly
    /\ [][pc = "done" => UNCHANGED settled]_vars

C29_Witness ==
    /\ TimerFiredLate
    /\ outcome.type = "value"
    /\ config.onError /\ ~Logged("onError:start")

(***************************************************************************)
(* The machine code of the classified error.                               *)
(***************************************************************************)
\* the code the class of each listed kind passes to its base class
FixedCode(kind) ==
    CASE kind = "AUTHENTICATION" -> "AUTHENTICATION_ERROR"
      [] kind = "AUTHORIZATION" -> "AUTHORIZATION_ERROR"
      [] kind = "NOT_FOUND" -> "NOT_FOUND"
      [] kind = "VALIDATION" -> "VALIDATION_ERROR"
      [] kind = "RATE_LIMIT" -> "RATE_LIMIT_ERROR"
      [] kind = "SERVER" -> "SERVER_ERROR"

\* C30: the error classified from a response whose status is in the table
\* carries the fixed code of its kind, whatever code the body supplies; the
\* error of any other failing status (the GENERIC kind) carries the body's
\* code, and no error of another kind carries it.
C30_FixedCodes ==
    /\ ClassifiedResponse =>
            LET e == The(relayError)
            IN  /\ FailsWith(e)
                /\ Status \in TableStatuses => e.code = FixedCode(TableKind(Status))
                /\ Status \notin TableStatuses =>
                        /\ Kind(e) = "GENERIC"
                        /\ e.code = (The(data)).code
    /\ \A e \in ErrorsOfCall :
            (data # Nothing /\ (The(data)).code # None /\ e.code = (The(data)).code)
                => Kind(e) = "GENERIC"

C30_Witness ==
    /\ Failed /\ Handled /\ Status = 503
    /\ (The(response)).body.kind = "json" /\ (The(response)).body.value.code = "E1"
    /\ (The(data)).code = "E1"
    /\ (The(outcome.error)).code = "SERVER_ERROR"

====
